---- MODULE Spec2Model ----
(***************************************************************************)
(* Model of interactive_map_app.py: the cached loader load_data and the    *)
(* Streamlit script body that filters the loaded table by the question     *)
(* chosen in a radio selector and hands it to a map and a display table.   *)
(*                                                                         *)
(* A table (DataFrame) is a sequence of records, one per row.  A cell is a *)
(* string; NaN is the missing value pandas puts in an empty cell.          *)
(* acceptance is a float64 with one decimal, held as a number of tenths    *)
(* (845 is 84.5).  A formatted acceptance is a sequence of characters.     *)
(***************************************************************************)
EXTENDS Integers, Sequences, FiniteSets, TLC

VARIABLES fileExists, source, cache, reads, pc, df, radio,
          question_options, selected_question, df_filtered, fig,
          df_display, shown

vars == <<fileExists, source, cache, reads, pc, df, radio,
          question_options, selected_question, df_filtered, fig,
          df_display, shown>>

\* ------------------------------------------------------------------ bounds
MaxRows == 3

MaxFullRows == 2

\* ------------------------------------------------------------ cell values
NaN == "<NaN>"

None == "<None>"

\* pandas elementwise ==: a comparison with NaN or with None is False
PandasEq(a, b) == a # NaN /\ b # NaN /\ a # None /\ b # None /\ a = b

\* --------------------------------------------------- load_data: questions
question_mapping ==
    [q \in {"Question from sheet 'QB15_1'", "Question from sheet 'QB15_2'",
            "Question from sheet 'QB15_3'", "Question from sheet 'QB15_4'"} |->
        CASE q = "Question from sheet 'QB15_1'" -> "Equal rights for gay, lesbian, and bisexual people"
          [] q = "Question from sheet 'QB15_2'" -> "Acceptance of same-sex relationships"
          [] q = "Question from sheet 'QB15_3'" -> "Allowance of same-sex marriage throughout Europe"
          [] q = "Question from sheet 'QB15_4'" -> "Adoption rights for same-sex couples"]

\* a replace whose result is thrown away: the column keeps the raw values
replace_discarded(q) == q

\* a replace that writes the label of the next sheet
replace_shifted(q) ==
    CASE q = "Question from sheet 'QB15_1'" -> question_mapping["Question from sheet 'QB15_2'"]
      [] q = "Question from sheet 'QB15_2'" -> question_mapping["Question from sheet 'QB15_3'"]
      [] q = "Question from sheet 'QB15_3'" -> question_mapping["Question from sheet 'QB15_4'"]
      [] q = "Question from sheet 'QB15_4'" -> question_mapping["Question from sheet 'QB15_4'"]
      [] OTHER -> q

\* Series.replace(question_mapping): a value that is a key becomes its label,
\* every other value (NaN included) is left as it is
replace(q) == IF q \in DOMAIN question_mapping THEN question_mapping[q] ELSE q

\* ------------------------------------------------ load_data: country name
\* the reference table behind pycountry.countries, restricted to the codes
\* the model feeds in (the 27 members and GB)
countries ==
    [c \in {"BE", "BG", "CZ", "DK", "DE", "EE", "IE", "GR", "ES", "FR",
            "HR", "IT", "CY", "LV", "LT", "LU", "HU", "MT", "NL", "AT",
            "PL", "PT", "RO", "SI", "SK", "FI", "SE", "GB"} |->
        CASE c = "BE" -> "Belgium"     [] c = "BG" -> "Bulgaria"
          [] c = "CZ" -> "Czechia"     [] c = "DK" -> "Denmark"
          [] c = "DE" -> "Germany"     [] c = "EE" -> "Estonia"
          [] c = "IE" -> "Ireland"     [] c = "GR" -> "Greece"
          [] c = "ES" -> "Spain"       [] c = "FR" -> "France"
          [] c = "HR" -> "Croatia"     [] c = "IT" -> "Italy"
          [] c = "CY" -> "Cyprus"      [] c = "LV" -> "Latvia"
          [] c = "LT" -> "Lithuania"   [] c = "LU" -> "Luxembourg"
          [] c = "HU" -> "Hungary"     [] c = "MT" -> "Malta"
          [] c = "NL" -> "Netherlands" [] c = "AT" -> "Austria"
          [] c = "PL" -> "Poland"      [] c = "PT" -> "Portugal"
          [] c = "RO" -> "Romania"     [] c = "SI" -> "Slovenia"
          [] c = "SK" -> "Slovakia"    [] c = "FI" -> "Finland"
          [] c = "SE" -> "Sweden"      [] c = "GB" -> "United Kingdom"]

\* pycountry.countries.get(alpha_2=code) for a string code: the entry's name,
\* or None when the code is not in the reference table
countries_get(code) == IF code \in DOMAIN countries THEN countries[code] ELSE None

\* pycountry.countries.get(alpha_2=code) for a code that is not a string (the
\* NaN of an empty cell): the library either raises LookupError, which the
\* except AttributeError clause lets through, or fails with AttributeError or
\* returns None as for an unknown string, depending on its version
countries_get_raises(code, strictLib) == code = NaN /\ strictLib

\* get_country_name: .name of None raises AttributeError, caught: the raw code
get_country_name(code) ==
    IF countries_get(code) = None THEN code ELSE countries_get(code)

\* ---------------------------------------------------- load_data: geo code
code_mapping ==
    [c \in {"BE", "BG", "CZ", "DK", "DE", "EE", "IE", "GR", "ES", "FR",
            "HR", "IT", "CY", "LV", "LT", "LU", "HU", "MT", "NL", "AT",
            "PL", "PT", "RO", "SI", "SK", "FI", "SE"} |->
        CASE c = "BE" -> "BEL" [] c = "BG" -> "BGR" [] c = "CZ" -> "CZE"
          [] c = "DK" -> "DNK" [] c = "DE" -> "DEU" [] c = "EE" -> "EST"
          [] c = "IE" -> "IRL" [] c = "GR" -> "GRC" [] c = "ES" -> "ESP"
          [] c = "FR" -> "FRA" [] c = "HR" -> "HRV" [] c = "IT" -> "ITA"
          [] c = "CY" -> "CYP" [] c = "LV" -> "LVA" [] c = "LT" -> "LTU"
          [] c = "LU" -> "LUX" [] c = "HU" -> "HUN" [] c = "MT" -> "MLT"
          [] c = "NL" -> "NLD" [] c = "AT" -> "AUT" [] c = "PL" -> "POL"
          [] c = "PT" -> "PRT" [] c = "RO" -> "ROU" [] c = "SI" -> "SVN"
          [] c = "SK" -> "SVK" [] c = "FI" -> "FIN" [] c = "SE" -> "SWE"]

\* a lookup that keeps the two-letter code when the table has no entry
map_code_keep(code) == IF code \in DOMAIN code_mapping THEN code_mapping[code] ELSE code

\* Series.map(code_mapping): the table's value, NaN for a value with no entry
map_code(code) == IF code \in DOMAIN code_mapping THEN code_mapping[code] ELSE NaN

\* ------------------------------------------------------ load_data: table
normalize_row(r, i) ==
    [index        |-> i - 1,
     question     |-> replace(r.question),
     code         |-> r.code,
     acceptance   |-> r.acceptance,
     country_name |-> get_country_name(r.code),
     iso_alpha    |-> map_code(r.code)]

HasGeo(r) == r.iso_alpha # NaN

\* a normalization that joins on the geocoding table and so loses the rows
\* whose code has no entry
normalize_inner(src) ==
    SelectSeq([i \in 1..Len(src) |-> normalize_row(src[i], i)], HasGeo)

\* lines 17, 28-47: the RangeIndex of read_csv and the three column
\* assignments, row by row
normalize(src) == [i \in 1..Len(src) |-> normalize_row(src[i], i)]

NoneResult == [kind |-> "None", rows |-> <<>>]

Unset == [kind |-> "unset", rows |-> <<>>]

Raised == [kind |-> "raise", rows |-> <<>>]

\* a loader without the except FileNotFoundError clause
load_data_noexcept(exists, src, strictLib) ==
    IF ~exists THEN Raised
    ELSE IF \E i \in 1..Len(src) : countries_get_raises(src[i].code, strictLib)
         THEN Raised
         ELSE [kind |-> "DataFrame", rows |-> normalize(src)]

\* the body of load_data (lines 16-48), run on a cache miss
load_data(exists, src, strictLib) ==
    IF ~exists THEN NoneResult
    ELSE IF \E i \in 1..Len(src) : countries_get_raises(src[i].code, strictLib)
         THEN Raised
         ELSE [kind |-> "DataFrame", rows |-> normalize(src)]

\* ------------------------------------------------------- script: selector
RECURSIVE UniqueFrom(_, _)
UniqueFrom(col, seen) ==
    IF col = <<>> THEN <<>>
    ELSE IF Head(col) \in seen THEN UniqueFrom(Tail(col), seen)
         ELSE <<Head(col)>> \o UniqueFrom(Tail(col), seen \cup {Head(col)})

\* df['question'].unique(): the distinct values in order of first
\* appearance; all NaN cells count as one value
unique(rows) == UniqueFrom([i \in 1..Len(rows) |-> rows[i].question], {})

\* st.radio(label, options): the option at the widget's index, None when
\* there is no option
st_radio(options, index) ==
    IF options = <<>> THEN None
    ELSE IF index \in 1..Len(options) THEN options[index] ELSE options[1]

\* --------------------------------------------------------- script: filter
\* df[df['question'] == selected_question]
filter(rows, label) == SelectSeq(rows, LAMBDA r : PandasEq(r.question, label))

\* ------------------------------------------------------------ script: map
\* the trace px.choropleth builds: one point per filtered row
choropleth(rows) ==
    [i \in 1..Len(rows) |->
        [locations  |-> rows[i].iso_alpha,
         z          |-> rows[i].acceptance,
         hover_name |-> rows[i].country_name]]

\* -------------------------------------------------- script: display table
Digits == <<"0", "1", "2", "3", "4", "5", "6", "7", "8", "9">>

RECURSIVE IntChars(_)
IntChars(n) ==
    IF n < 10 THEN <<Digits[n + 1]>>
    ELSE IntChars(n \div 10) \o <<Digits[(n % 10) + 1]>>

\* astype(str) of a float64 with one decimal: 84.5 -> "84.5", 91.0 -> "91.0"
astype_str(tenths) == IntChars(tenths \div 10) \o <<".">> \o <<Digits[(tenths % 10) + 1]>>

\* astype(str) + '%'
format_pct(tenths) == astype_str(tenths) \o <<"%">>

Perms(n) == {p \in [1..n -> 1..n] : \A i, j \in 1..n : i # j => p[i] # p[j]}

\* code points of the characters a formatted acceptance is made of
CharRank(c) ==
    CASE c = "%" -> 37 [] c = "." -> 46
      [] c = "0" -> 48 [] c = "1" -> 49 [] c = "2" -> 50 [] c = "3" -> 51
      [] c = "4" -> 52 [] c = "5" -> 53 [] c = "6" -> 54 [] c = "7" -> 55
      [] c = "8" -> 56 [] c = "9" -> 57

RECURSIVE StrLeq(_, _)
StrLeq(a, b) ==
    IF a = <<>> THEN TRUE
    ELSE IF b = <<>> THEN FALSE
    ELSE IF CharRank(Head(a)) # CharRank(Head(b)) THEN CharRank(Head(a)) < CharRank(Head(b))
    ELSE StrLeq(Tail(a), Tail(b))

\* a sort applied after the formatting: the strings are compared
sort_values_formatted(rows) ==
    {p \in Perms(Len(rows)) :
        \A i \in 1..(Len(rows) - 1) :
            StrLeq(format_pct(rows[p[i + 1]].acceptance), format_pct(rows[p[i]].acceptance))}

\* sort_values('Acceptance (%)', ascending=False): the orders the default
\* (unstable) quicksort can leave the rows in, as positions in the input
sort_values(rows) ==
    {p \in Perms(Len(rows)) :
        \A i \in 1..(Len(rows) - 1) :
            rows[p[i]].acceptance >= rows[p[i + 1]].acceptance}

\* lines 118-124: select and rename the two columns, sort, format
display(rows, p) ==
    [i \in 1..Len(rows) |->
        [index      |-> rows[p[i]].index,
         Country    |-> rows[p[i]].country_name,
         Acceptance |-> format_pct(rows[p[i]].acceptance)]]

\* ------------------------------------------------------------ the inputs
Q1 == "Question from sheet 'QB15_1'"

Q2 == "Question from sheet 'QB15_2'"

Q3 == "Question from sheet 'QB15_3'"

Q4 == "Question from sheet 'QB15_4'"

\* an identifier the mapping has no entry for
QX == "Question from sheet 'QB15_9'"

FixedIds == {Q1, Q2, Q3, Q4}

FixedLabels == {"Equal rights for gay, lesbian, and bisexual people",
                "Acceptance of same-sex relationships",
                "Allowance of same-sex marriage throughout Europe",
                "Adoption rights for same-sex couples"}

\* the rows of the session specification: every combination of a mapped,
\* an unmapped and a missing question, a known, an unknown and a missing
\* code, and two acceptances whose numeric and string orders differ
Questions == {Q1, Q2, QX, NaN}

Codes == {"BE", "XK", NaN}

Acceptances == {95, 845}

SourceRows == [question : Questions, code : Codes, acceptance : Acceptances]

\* the rows of the loader specification: every key of the two tables, a code
\* only the reference table knows (GB), one neither knows (XK), a missing
\* one; every identifier, an unmapped one, a value that is already a label
AllQuestions == FixedIds \cup {QX, "Acceptance of same-sex relationships", NaN}

AllCodes == DOMAIN countries \cup {"XK", NaN}

FullRows == [question : AllQuestions, code : {"BE"}, acceptance : {910}]
            \cup [question : {Q1}, code : AllCodes, acceptance : {845}]

Tables(rows, n) == UNION {[1..k -> rows] : k \in 0..n}

\* --------------------------------------------------------------- the state
NoCache == [set |-> FALSE, value |-> Unset]

InitSession ==
    /\ cache = NoCache
    /\ reads = 0
    /\ pc = "run"
    /\ df = Unset
    /\ radio = 1
    /\ question_options = <<>>
    /\ selected_question = None
    /\ df_filtered = <<>>
    /\ fig = <<>>
    /\ df_display = <<>>
    /\ shown = {}

\* the CSV file is there with some rows, or it is not there
Init ==
    /\ \/ fileExists = TRUE /\ source \in Tables(SourceRows, MaxRows)
       \/ fileExists = FALSE /\ source = <<>>
    /\ InitSession

InitFull ==
    /\ \/ fileExists = TRUE /\ source \in Tables(FullRows, MaxFullRows)
       \/ fileExists = FALSE /\ source = <<>>
    /\ InitSession

\* ------------------------------------------------------------- the actions
\* a loader call that runs the body every time
LoadDataUncached(strictLib) ==
    /\ pc = "run"
    /\ LET r == load_data(fileExists, source, strictLib)
       IN  /\ reads' = reads + 1
           /\ IF r.kind = "raise"
              THEN pc' = "crashed" /\ df' = Unset /\ UNCHANGED cache
              ELSE pc' = "loaded" /\ df' = r /\ cache' = [set |-> TRUE, value |-> r]
    /\ UNCHANGED <<fileExists, source, radio, question_options,
                   selected_question, df_filtered, fig, df_display, shown>>

\* line 50, df = load_data() under st.cache_data: a hit hands out a copy of
\* the stored value; a miss runs the body, reads the file and stores the
\* value it returns (None included); an exception stores nothing
LoadData(strictLib) ==
    /\ pc = "run"
    /\ IF cache.set
       THEN /\ df' = cache.value
            /\ pc' = "loaded"
            /\ UNCHANGED <<cache, reads>>
       ELSE LET r == load_data(fileExists, source, strictLib)
            IN  /\ reads' = reads + 1
                /\ IF r.kind = "raise"
                   THEN pc' = "crashed" /\ df' = Unset /\ UNCHANGED cache
                   ELSE pc' = "loaded" /\ df' = r /\ cache' = [set |-> TRUE, value |-> r]
    /\ UNCHANGED <<fileExists, source, radio, question_options,
                   selected_question, df_filtered, fig, df_display, shown>>

\* lines 54-59: the title, then the error notice when df is None
ShowError ==
    /\ pc = "loaded"
    /\ df.kind = "None"
    /\ shown' = {"title", "error"}
    /\ pc' = "error"
    /\ UNCHANGED <<fileExists, source, cache, reads, df, radio, question_options,
                   selected_question, df_filtered, fig, df_display>>

\* lines 54-56 and 60-143: the title, the selector, the filtered subset, the
\* map, the display table and the closing text
Render ==
    /\ pc = "loaded"
    /\ df.kind = "DataFrame"
    /\ LET opts == unique(df.rows)
           sel  == st_radio(opts, radio)
           filt == filter(df.rows, sel)
       IN  /\ question_options' = opts
           /\ selected_question' = sel
           /\ df_filtered' = filt
           /\ fig' = choropleth(filt)
           /\ \E p \in sort_values(filt) : df_display' = display(filt, p)
    /\ shown' = {"title", "radio", "map", "table", "about"}
    /\ pc' = "rendered"
    /\ UNCHANGED <<fileExists, source, cache, reads, df, radio>>

\* the user picks another option of the radio: the widget keeps the choice
\* and the whole script runs again from the top
Select(j) ==
    /\ pc = "rendered"
    /\ j \in 1..Len(question_options)
    /\ j # radio
    /\ radio' = j
    /\ pc' = "run"
    /\ df' = Unset
    /\ question_options' = <<>>
    /\ selected_question' = None
    /\ df_filtered' = <<>>
    /\ fig' = <<>>
    /\ df_display' = <<>>
    /\ shown' = {}
    /\ UNCHANGED <<fileExists, source, cache, reads>>

Next ==
    \/ \E strictLib \in BOOLEAN : LoadData(strictLib)
    \/ ShowError
    \/ Render
    \/ \E j \in 1..Len(question_options) : Select(j)

Spec == Init /\ [][Next]_vars

SpecFull == InitFull /\ [][Next]_vars

\* ============================================================ properties
Loaded == pc \in {"loaded", "rendered"} /\ df.kind = "DataFrame"

Labels(rows) == {rows[i].question : i \in 1..Len(rows)}

\* C1: the table load_data returns has one row per source row, in the source
\* order: row i carries the code and the acceptance of source row i, and its
\* question is that row's question or the label that replaced it.
C1_RowsPreserved ==
    Loaded =>
        /\ Len(df.rows) = Len(source)
        /\ \A i \in 1..Len(df.rows) :
              /\ i <= Len(source)
              /\ df.rows[i].index = i - 1
              /\ df.rows[i].code = source[i].code
              /\ df.rows[i].acceptance = source[i].acceptance
              /\ df.rows[i].question \in {source[i].question} \cup FixedLabels

C1_Witness ==
    /\ Loaded
    /\ Len(source) = 3
    /\ Len(df.rows) = 3
    /\ source[1].question = QX /\ source[1].code = "XK"
    /\ source[2].question = Q1 /\ source[2].code = "BE"
    /\ source[3].code = NaN

\* C2: a row whose code is one of the 27 keys of the geocoding table has that
\* table's value as iso_alpha, a row whose code is no key has a missing
\* iso_alpha, and two rows with the same code have the same iso_alpha.
C2_GeoCode ==
    Loaded =>
        /\ Cardinality(DOMAIN code_mapping) = 27
        /\ \A i \in 1..Len(df.rows) :
              IF df.rows[i].code \in DOMAIN code_mapping
              THEN df.rows[i].iso_alpha = code_mapping[df.rows[i].code]
              ELSE df.rows[i].iso_alpha = NaN
        /\ \A i, j \in 1..Len(df.rows) :
              df.rows[i].code = df.rows[j].code => df.rows[i].iso_alpha = df.rows[j].iso_alpha

C2_Witness ==
    /\ Loaded
    /\ Len(df.rows) = 2
    /\ df.rows[1].code = "SE" /\ df.rows[1].iso_alpha = "SWE"
    /\ df.rows[2].code = "GB" /\ df.rows[2].iso_alpha = NaN

\* C3 as stated: whatever the source identifiers, the labels of the loaded
\* table are at most 4 and all among the four fixed labels.
C3_Original ==
    Loaded =>
        /\ Labels(df.rows) \subseteq FixedLabels
        /\ Cardinality(Labels(df.rows)) <= 4

\* C3 amended: when every source identifier is one of the four fixed ones,
\* the labels of the loaded table are at most 4 and all among the four fixed
\* labels; a question that is not a fixed identifier is kept as it is.
C3_LabelsWithinFixedSet ==
    Loaded =>
        /\ (\A i \in 1..Len(source) : source[i].question \in FixedIds) =>
              /\ Labels(df.rows) \subseteq FixedLabels
              /\ Cardinality(Labels(df.rows)) <= 4
        /\ \A i \in 1..Len(df.rows) :
              (i <= Len(source) /\ source[i].question \notin FixedIds) =>
                  df.rows[i].question = source[i].question

C3_Witness ==
    /\ Loaded
    /\ Len(source) = 2
    /\ source[1].question = Q3
    /\ source[2].question = Q4
    /\ Cardinality(Labels(df.rows)) = 2

\* C4: when every source identifier is one of the four fixed ones, each row
\* carries the label the mapping gives its identifier; the mapping is defined
\* on exactly the four identifiers and one-to-one, and no row keeps a raw
\* identifier.
C4_LabelOfIdentifier ==
    Loaded =>
        ((\A i \in 1..Len(source) : source[i].question \in FixedIds) =>
            /\ DOMAIN question_mapping = FixedIds
            /\ \A a, b \in FixedIds : a # b => question_mapping[a] # question_mapping[b]
            /\ Len(df.rows) = Len(source)
            /\ \A i \in 1..Len(source) :
                  /\ df.rows[i].question = question_mapping[source[i].question]
                  /\ df.rows[i].question \notin FixedIds)

C4_Witness ==
    /\ Loaded
    /\ Len(source) = 2
    /\ source[1].question = Q4
    /\ df.rows[1].question = "Adoption rights for same-sex couples"
    /\ source[2].question = Q1
    /\ df.rows[2].question = "Equal rights for gay, lesbian, and bisexual people"

\* C5 as stated: country_name is the reference name when the lookup finds the
\* code and the raw code otherwise, and when the file is there no lookup
\* makes load_data fail or return None.
C5_NameResolutionTotal ==
    /\ Loaded =>
          \A i \in 1..Len(df.rows) :
              df.rows[i].country_name =
                  IF df.rows[i].code \in DOMAIN countries
                  THEN countries[df.rows[i].code] ELSE df.rows[i].code
    /\ fileExists => pc # "crashed"
    /\ (fileExists /\ pc \in {"loaded", "rendered", "error"}) => df.kind = "DataFrame"

\* C6: with the file absent load_data returns None without raising, and the
\* script shows the error notice and builds no selector, subset, map or table.
C6_AbsentFile ==
    ~fileExists =>
        /\ pc \in {"run", "loaded", "error"}
        /\ pc # "run" => df = NoneResult /\ cache.value = NoneResult
        /\ shown \subseteq {"title", "error"}
        /\ pc = "error" => "error" \in shown
        /\ question_options = <<>> /\ selected_question = None
        /\ df_filtered = <<>> /\ fig = <<>> /\ df_display = <<>>

C6_Witness == ~fileExists /\ pc = "error" /\ shown = {"title", "error"} /\ reads = 1

\* C7: in every step the file has been read at most once, a stored value is
\* never replaced or changed, and a load_data call hands out the stored value.
C7_CacheStable ==
    [][/\ reads' <= 1
       /\ cache.set => cache' = cache /\ reads' = reads
       /\ (pc = "run" /\ pc' = "loaded") => (cache'.set /\ df' = cache'.value)]_vars

C7_Witness ==
    /\ pc = "rendered"
    /\ radio = 2
    /\ reads = 1
    /\ Len(df.rows) = 3
    /\ df = cache.value
    /\ Len(df_display) = 2

RECURSIVE SumLens(_, _)
SumLens(rows, opts) ==
    IF opts = <<>> THEN 0
    ELSE Len(filter(rows, Head(opts))) + SumLens(rows, Tail(opts))

\* C8 as stated: the filtered subset is exactly the rows whose label is the
\* selected one, in table order, and over the offered labels the subsets are
\* disjoint and their sizes add up to the size of the table.
C8_FilterPartition ==
    pc = "rendered" =>
        /\ selected_question \in Labels(df.rows) =>
              df_filtered = SelectSeq(df.rows, LAMBDA r : r.question = selected_question)
        /\ \A a, b \in 1..Len(question_options) :
              a # b => \A i \in 1..Len(df.rows) :
                  ~ (/\ \E k \in 1..Len(filter(df.rows, question_options[a])) :
                           filter(df.rows, question_options[a])[k] = df.rows[i]
                     /\ \E k \in 1..Len(filter(df.rows, question_options[b])) :
                           filter(df.rows, question_options[b])[k] = df.rows[i])
        /\ SumLens(df.rows, question_options) = Len(df.rows)

\* the number of tenths a string of digits with one decimal point stands for
RECURSIVE ParseTenths(_)
ParseTenths(chars) ==
    IF chars = <<>> THEN 0
    ELSE LET c == chars[Len(chars)]
             front == SubSeq(chars, 1, Len(chars) - 1)
         IN  IF c = "." THEN ParseTenths(front)
             ELSE 10 * ParseTenths(front) + (CHOOSE d \in 0..9 : Digits[d + 1] = c)

IsPct(chars) ==
    /\ Len(chars) >= 4
    /\ chars[Len(chars)] = "%"
    /\ chars[Len(chars) - 2] = "."
    /\ \A k \in 1..(Len(chars) - 1) :
          k # Len(chars) - 2 => \E d \in 0..9 : Digits[d + 1] = chars[k]

PctValue(chars) == ParseTenths(SubSeq(chars, 1, Len(chars) - 1))

\* C9: the display table has one row per filtered row (the rows without a
\* geo code included), each with the country name and the acceptance written
\* as the number followed by a percent sign, in descending numeric order.
C9_DisplayTable ==
    pc = "rendered" =>
        /\ Len(df_display) = Len(df_filtered)
        /\ \A i, j \in 1..Len(df_display) : i # j => df_display[i].index # df_display[j].index
        /\ \A i \in 1..Len(df_display) :
              /\ IsPct(df_display[i].Acceptance)
              /\ \E k \in 1..Len(df_filtered) :
                    /\ df_filtered[k].index = df_display[i].index
                    /\ df_filtered[k].country_name = df_display[i].Country
                    /\ df_filtered[k].acceptance = PctValue(df_display[i].Acceptance)
        /\ \A i \in 1..(Len(df_display) - 1) :
              PctValue(df_display[i].Acceptance) >= PctValue(df_display[i + 1].Acceptance)

C9_Witness ==
    /\ pc = "rendered"
    /\ Len(df_filtered) = 3
    /\ df_filtered[1].acceptance = 95 /\ df_filtered[1].iso_alpha = NaN
    /\ df_filtered[2].acceptance = 845
    /\ Len(df_display) = 3
    /\ df_display[1].Acceptance = <<"8", "4", ".", "5", "%">>
    /\ df_display[3].Acceptance = <<"9", ".", "5", "%">>
    /\ fig[1].locations = NaN

\* C10 as stated: the selector offers exactly the distinct labels of the
\* table, at most 4, a selected label is one of them, and a table with at
\* least one row gives a non-empty filtered subset.
C10_SelectionInRange ==
    pc = "rendered" =>
        /\ {question_options[k] : k \in 1..Len(question_options)} = Labels(df.rows)
        /\ \A a, b \in 1..Len(question_options) :
              a # b => question_options[a] # question_options[b]
        /\ Len(question_options) <= 4
        /\ selected_question # None =>
              \E k \in 1..Len(question_options) : question_options[k] = selected_question
        /\ Len(df.rows) >= 1 => df_filtered # <<>>

====
